---- MODULE Spec2Model ----
(***************************************************************************)
(* A model of src/vb-volume.py: the VoiceMeeterTray controller that binds  *)
(* hotkeys and a tray menu to one VoiceMeeter strip (mute, A1, A2, gain).  *)
(*                                                                         *)
(* Gain is a float in the source; every literal the program uses is an     *)
(* integer number of dB (0, -6, -12, -20, +-2, +-4, -60), so gains are     *)
(* modelled as integers, on which max, min and + are exact.                *)
(*                                                                         *)
(* Three specifications share the definitions:                             *)
(*   Spec      each public method of the object is one atomic action       *)
(*             (single caller, the handler runs to completion);            *)
(*   ConcSpec  the hotkey thread and the tray thread run the handlers one  *)
(*             backend round trip at a time, interleaved;                  *)
(*   LiveSpec  the same interleaving together with the refresh thread      *)
(*             (menu_update_loop), under weak fairness of that thread.     *)
(***************************************************************************)
EXTENDS Integers, Sequences, FiniteSets, TLC

VARIABLES
    vm,          \* self.vm is set (the backend handle)
    icon,        \* self.icon is set (the pystray icon exists)
    running,     \* self.running
    stopped,     \* self.icon.stop() has been called
    icon_theme,  \* self.icon_theme: "" or "1"
    strip,       \* the backend's strip: [mute, A1, A2, gain]
    shown,       \* self.icon.icon: the image the tray displays
    title,       \* self.icon.title: "status" (the strip's text) or "default"
    assetsOk,    \* the PNG files under icons/ can be opened
    backendOk,   \* the backend answers calls (ConcSpec, LiveSpec)
    last,        \* history: the last method called on the object (Spec)
    pre,         \* history: the strip before that call (Spec)
    streak,      \* history: consecutive change_gain(-2) calls since gain -10 (Spec)
    chain,       \* history: consecutive completed calls of one toggle (Spec)
    pc,          \* position of each thread (ConcSpec, LiveSpec)
    loc,         \* locals of each thread's running handler
    calls,       \* handlers invoked so far by the callers
    hist         \* history: the strip at start, then the handlers invoked (ConcSpec)

vars == <<vm, icon, running, stopped, icon_theme, strip, shown, title, assetsOk,
          backendOk, last, pre, streak, chain, pc, loc, calls, hist>>

GainFloor == -60

GainCeil == 0

\* Magnitude of the out-of-range arguments tried (beyond the 60 dB range).
OutOfRange == 100

\* Cap of the streak history counter: 25 calls reach the floor from -10.
MaxStreak == 26

\* Cap of the chain history counter: consecutive toggles that are counted.
MaxChain == 2

Min(a, b) == IF b < a THEN b ELSE a

Max(a, b) == IF b > a THEN b ELSE a

Buses == {"A1", "A2"}

\* Arguments of change_gain: the menu's and the hotkeys' (+-2, +-4), zero, an
\* odd step, and steps larger than the whole range.
Deltas == {-OutOfRange, -4, -2, 0, 2, 4, 5, OutOfRange}

\* Arguments of set_gain: the menu's presets, the bounds, and values outside.
Values == {-OutOfRange, -20, -12, -6, GainCeil, 10, OutOfRange}

\* Gains the backend may hold when the program starts.
InitGains == {-10, -1}

Themes == {"", "1"}

FlagOf(s, bus) == IF bus = "A1" THEN s.A1 ELSE s.A2

WithFlag(s, bus, v) == IF bus = "A1" THEN [s EXCEPT !.A1 = v] ELSE [s EXCEPT !.A2 = v]

(***************************************************************************)
(* The pure parts of the methods.                                          *)
(***************************************************************************)

\* Mutants of change_gain's expression: the ceiling forgotten; the delta
\* subtracted.
NewGain_NoCeiling(current, delta) == Max(current + delta, GainFloor)

NewGain_Subtracts(current, delta) == Max(Min(current - delta, GainCeil), GainFloor)

\* change_gain: new_gain = max(min(current + delta, 0.0), -60.0)
NewGain(current, delta) == Max(Min(current + delta, GainCeil), GainFloor)

\* Mutant of set_gain's expression: max and min exchanged.
ClampedValue_Swapped(value) == Min(Max(value, GainCeil), GainFloor)

\* set_gain: clamped_value = max(min(value, 0.0), -60.0)
ClampedValue(value) == Max(Min(value, GainCeil), GainFloor)

\* Mutants of toggle_mute's write: always mutes; muting also turns the
\* routes off.
ToggledMute_AlwaysMutes(s) == [s EXCEPT !.mute = TRUE]

ToggledMute_RoutesOff(s) ==
    [s EXCEPT !.mute = ~s.mute, !.A1 = s.A1 /\ s.mute, !.A2 = s.A2 /\ s.mute]

\* toggle_mute: new_state = not current, written to .mute
ToggledMute(s) == [s EXCEPT !.mute = ~s.mute]

\* toggle_bus: new_state = not current, written to the bus's attribute
ToggledBus(s, bus) == WithFlag(s, bus, ~FlagOf(s, bus))

\* The same writes when `current` was read in an earlier round trip.
MuteWritten(s, current) == [s EXCEPT !.mute = ~current]

BusWritten(s, bus, current) == WithFlag(s, bus, ~current)

\* Mutant of the if/elif chain: the headset and speakers branches exchanged.
IconName_RoutesSwapped(muted, a1_active, a2_active) ==
    IF muted THEN "muted"
    ELSE IF a1_active /\ a2_active THEN "unmute"
    ELSE IF a1_active /\ ~a2_active THEN "speakers"
    ELSE IF a2_active /\ ~a1_active THEN "headset"
    ELSE "muted"

\* create_icon_image: the if/elif chain that picks the PNG's name.
IconName(muted, a1_active, a2_active) ==
    IF muted THEN "muted"
    ELSE IF a1_active /\ a2_active THEN "unmute"
    ELSE IF a1_active /\ ~a2_active THEN "headset"
    ELSE IF a2_active /\ ~a1_active THEN "speakers"
    ELSE "muted"

\* create_fallback_icon: a red disc with an M when muted, else a green disc.
FallbackIcon(muted) == IF muted THEN <<"fallback_red_M", "">> ELSE <<"fallback_green_note", "">>

\* create_icon_image once the bus states are read: the themed PNG, or the
\* fallback when Image.open raises.
CreateIconImage(muted, a1_active, a2_active) ==
    IF assetsOk THEN <<IconName(muted, a1_active, a2_active), icon_theme>>
    ELSE FallbackIcon(muted)

\* is_muted, is_bus_active, get_current_gain on a strip value: live values
\* with a backend handle, else the defaults.
IsMuted(s) == IF vm THEN s.mute ELSE FALSE

IsBusActive(s, bus) == IF vm THEN FlagOf(s, bus) ELSE FALSE

\* Mutant of get_current_gain: the `if self.vm` default forgotten.
GetCurrentGain_NoDefault(s) == s.gain

GetCurrentGain(s) == IF vm THEN s.gain ELSE 0

(***************************************************************************)
(* Spec: every method as one atomic action.  f is the index of the first   *)
(* backend call of the handler that raises (0: none raises).               *)
(***************************************************************************)

\* update_icon run to completion.  Its backend calls, in order: 1 is_muted,
\* 2 is_bus_active('A1'), 3 is_bus_active('A2'), 4 the reads of get_tooltip.
\* A raise in 1 escapes; a raise in 2 or 3 is caught in create_icon_image,
\* whose handler then reads the unbound icon_path and raises again; a raise
\* in 4 is caught by get_tooltip, which returns the default text.
UpdRaises(f) == icon /\ vm /\ f \in 1..3

UpdShown(s, f) ==
    IF ~icon \/ UpdRaises(f) THEN shown
    ELSE CreateIconImage(IsMuted(s), IsBusActive(s, "A1"), IsBusActive(s, "A2"))

UpdTitle(f) ==
    IF ~icon \/ UpdRaises(f) THEN title
    ELSE IF ~vm \/ f = 4 THEN "default" ELSE "status"

Called(op, bus, arg, raised, ret) ==
    [op |-> op, bus |-> bus, arg |-> arg, vm |-> vm, raised |-> raised, ret |-> ret]

NoThreads == UNCHANGED <<backendOk, pc, loc, calls, hist>>

\* The streak counter: consecutive completed change_gain(-2) calls, counted
\* from a call made at gain -10.
NextStreak(op, arg, ok) ==
    IF op = "change_gain" /\ arg = -2 /\ ok
    THEN IF streak > 0 THEN Min(streak + 1, MaxStreak)
         ELSE IF strip.gain = -10 THEN 1 ELSE 0
    ELSE 0

\* The chain counter: consecutive completed calls of the same toggle, with
\* the flag's value before the first of them.
NextChain(op, bus, ok, flag) ==
    IF ~ok THEN [op |-> "", bus |-> "", n |-> 0, orig |-> FALSE]
    ELSE IF chain.op = op /\ chain.bus = bus /\ chain.n < MaxChain
         THEN [chain EXCEPT !.n = chain.n + 1]
         ELSE [op |-> op, bus |-> bus, n |-> 1, orig |-> flag]

NoChain == NextChain("", "", FALSE, FALSE)

toggle_mute(f) ==
    LET done == vm /\ f \notin 1..2
        raised == vm /\ (f \in 1..2 \/ UpdRaises(f - 2))
        s2 == IF done THEN ToggledMute(strip) ELSE strip
    IN /\ strip' = s2
       /\ shown' = IF done THEN UpdShown(s2, f - 2) ELSE shown
       /\ title' = IF done THEN UpdTitle(f - 2) ELSE title
       /\ last' = Called("toggle_mute", "", 0, raised, <<>>)
       /\ pre' = strip
       /\ streak' = 0
       /\ chain' = NextChain("toggle_mute", "", vm /\ ~raised, strip.mute)
       /\ UNCHANGED <<vm, icon, running, stopped, icon_theme, assetsOk>>
       /\ NoThreads

toggle_bus(bus, f) ==
    LET done == vm /\ f = 0
    IN /\ strip' = IF done THEN ToggledBus(strip, bus) ELSE strip
       /\ last' = Called("toggle_bus", bus, 0, vm /\ f \in 1..2, <<>>)
       /\ pre' = strip
       /\ streak' = 0
       /\ chain' = NextChain("toggle_bus", bus, done, FlagOf(strip, bus))
       /\ UNCHANGED <<vm, icon, running, stopped, icon_theme, shown, title, assetsOk>>
       /\ NoThreads

change_gain(delta, f) ==
    LET done == vm /\ f = 0
    IN /\ strip' = IF done THEN [strip EXCEPT !.gain = NewGain(strip.gain, delta)] ELSE strip
       /\ last' = Called("change_gain", "", delta, vm /\ f \in 1..2, <<>>)
       /\ pre' = strip
       /\ streak' = NextStreak("change_gain", delta, done)
       /\ chain' = NoChain
       /\ UNCHANGED <<vm, icon, running, stopped, icon_theme, shown, title, assetsOk>>
       /\ NoThreads

set_gain(value, f) ==
    LET done == vm /\ f = 0
    IN /\ strip' = IF done THEN [strip EXCEPT !.gain = ClampedValue(value)] ELSE strip
       /\ last' = Called("set_gain", "", value, vm /\ f \in 1..2, <<>>)
       /\ pre' = strip
       /\ streak' = 0
       /\ chain' = NoChain
       /\ UNCHANGED <<vm, icon, running, stopped, icon_theme, shown, title, assetsOk>>
       /\ NoThreads

\* The three reads: each one backend call, which may raise (f = 1).
Read(op, bus, value, f) ==
    /\ last' = Called(op, bus, 0, vm /\ f = 1, IF vm /\ f = 1 THEN <<>> ELSE <<value>>)
    /\ pre' = strip
    /\ streak' = 0
    /\ chain' = NoChain
    /\ UNCHANGED <<vm, icon, running, stopped, icon_theme, strip, shown, title, assetsOk>>
    /\ NoThreads

get_current_gain(f) == Read("get_current_gain", "", GetCurrentGain(strip), f)

is_muted(f) == Read("is_muted", "", IsMuted(strip), f)

is_bus_active(bus, f) == Read("is_bus_active", bus, IsBusActive(strip, bus), f)

\* run(): `with voicemeeterlib.api(...) as vm: self.vm = vm`
run_connect ==
    /\ ~vm
    /\ vm' = TRUE
    /\ last' = Called("run_connect", "", 0, FALSE, <<>>)
    /\ pre' = strip
    /\ streak' = 0
    /\ chain' = NoChain
    /\ UNCHANGED <<icon, running, stopped, icon_theme, strip, shown, title, assetsOk>>
    /\ NoThreads

\* run(): the icon is created from create_icon_image(self.is_muted()) and
\* get_tooltip().
run_create_icon ==
    /\ vm /\ ~icon
    /\ icon' = TRUE
    /\ shown' = CreateIconImage(IsMuted(strip), IsBusActive(strip, "A1"), IsBusActive(strip, "A2"))
    /\ title' = "status"
    /\ last' = Called("run_create_icon", "", 0, FALSE, <<>>)
    /\ pre' = strip
    /\ streak' = 0
    /\ chain' = NoChain
    /\ UNCHANGED <<vm, running, stopped, icon_theme, strip, assetsOk>>
    /\ NoThreads

\* The threads: "main" runs run() and then the tray's menu callbacks, "hotkey"
\* is the keyboard hook's thread, "refresh" runs menu_update_loop.
Callers == {"main", "hotkey"}

Threads == Callers \cup {"refresh"}

PcStart == [t \in Threads |->
              IF t = "main" THEN "start" ELSE IF t = "hotkey" THEN "unhooked" ELSE "unstarted"]

\* A handler's locals: the bus and argument it was called with, the value it
\* read (current), and update_icon's muted, a1_active and image.
NoLoc == [bus |-> "", arg |-> 0, cur |-> FALSE, gcur |-> 0,
          muted |-> FALSE, a1 |-> FALSE, img |-> <<"none", "">>]

Strips == [mute : BOOLEAN, A1 : BOOLEAN, A2 : BOOLEAN, gain : InitGains]

Init ==
    /\ vm = FALSE
    /\ icon = FALSE
    /\ running = TRUE
    /\ stopped = FALSE
    /\ icon_theme = ""
    /\ strip \in Strips
    /\ shown = <<"none", "">>
    /\ title = "none"
    /\ assetsOk = TRUE
    /\ backendOk = TRUE
    /\ last = Called("init", "", 0, FALSE, <<>>)
    /\ pre = strip
    /\ streak = 0
    /\ chain = [op |-> "", bus |-> "", n |-> 0, orig |-> FALSE]
    /\ pc = PcStart
    /\ loc = [t \in Threads |-> NoLoc]
    /\ calls = 0
    /\ hist = <<>>

Next ==
    \/ run_connect
    \/ run_create_icon
    \/ \E f \in 0..6 : toggle_mute(f)
    \/ \E bus \in Buses, f \in 0..2 : toggle_bus(bus, f)
    \/ \E delta \in Deltas, f \in 0..2 : change_gain(delta, f)
    \/ \E value \in Values, f \in 0..2 : set_gain(value, f)
    \/ \E f \in 0..1 : get_current_gain(f)
    \/ \E f \in 0..1 : is_muted(f)
    \/ \E bus \in Buses, f \in 0..1 : is_bus_active(bus, f)

Spec == Init /\ [][Next]_vars

(***************************************************************************)
(* ConcSpec and LiveSpec: the same methods, one backend round trip per     *)
(* step.  A backend call raises exactly when backendOk is false.  An       *)
(* exception that leaves a handler returns the caller thread to its        *)
(* dispatcher ("idle"); one inside a refresh pass is caught by the loop's  *)
(* bare except; one inside run() ends the program ("crashed").  The        *)
(* program's exit after quit_application kills the daemon threads at an    *)
(* arbitrary later time; the threads are modelled as running on.           *)
(***************************************************************************)

\* Bounds: handlers invoked by the hotkey thread and the menu together, in
\* ConcSpec and in LiveSpec.
MaxCalls == 2

MaxLiveCalls == 1

\* Gain the backend holds at start in ConcSpec and LiveSpec.
ConcStrips == [mute : BOOLEAN, A1 : BOOLEAN, A2 : BOOLEAN, gain : {-10}]

\* The menu's "Increase/Decrease" items and the Alt+Numpad 3/6 hotkeys.
DeltasOf(t) == IF t = "main" THEN {2, 4, -4, -2} ELSE {-2, 2}

\* The menu's "Set to" items.
Presets == {0, -6, -12, -20}

Alive == pc["main"] # "crashed"

Goto(t, p, l) == pc' = [pc EXCEPT ![t] = p] /\ loc' = [loc EXCEPT ![t] = l]

\* Where a thread is between handlers (callers) or between passes (refresh,
\* in time.sleep); also where an exception leaving the handler or the pass
\* takes it.
Rest(t) == IF t = "refresh" THEN "loop" ELSE "idle"

CanCall(t, max) == Alive /\ pc[t] = "idle" /\ calls < max

Invoked(op, bus, arg, h) ==
    /\ calls' = calls + 1
    /\ hist' = IF h THEN Append(hist, [op |-> op, bus |-> bus, arg |-> arg]) ELSE hist

Quiet == UNCHANGED <<vm, icon, running, stopped, icon_theme, assetsOk, backendOk,
                     last, pre, streak, chain>>

\* toggle_mute up to its read: `if self.vm: current = ...mute`
tm_begin(t, h, max) ==
    /\ CanCall(t, max) /\ Invoked("toggle_mute", "", 0, h)
    /\ IF vm /\ backendOk
       THEN Goto(t, "tm_write", [NoLoc EXCEPT !.cur = strip.mute])
       ELSE Goto(t, "idle", NoLoc)
    /\ Quiet /\ UNCHANGED <<strip, shown, title>>

\* toggle_mute: `...mute = new_state`, then update_icon
tm_write(t) ==
    /\ Alive /\ pc[t] = "tm_write"
    /\ IF backendOk
       THEN strip' = MuteWritten(strip, loc[t].cur) /\ Goto(t, "ui_muted", NoLoc)
       ELSE strip' = strip /\ Goto(t, "idle", NoLoc)
    /\ Quiet /\ UNCHANGED <<shown, title, calls, hist>>

tb_begin(t, bus, h, max) ==
    /\ CanCall(t, max) /\ Invoked("toggle_bus", bus, 0, h)
    /\ IF vm /\ backendOk
       THEN Goto(t, "tb_write", [NoLoc EXCEPT !.bus = bus, !.cur = FlagOf(strip, bus)])
       ELSE Goto(t, "idle", NoLoc)
    /\ Quiet /\ UNCHANGED <<strip, shown, title>>

tb_write(t) ==
    /\ Alive /\ pc[t] = "tb_write"
    /\ strip' = IF backendOk THEN BusWritten(strip, loc[t].bus, loc[t].cur) ELSE strip
    /\ Goto(t, "idle", NoLoc)
    /\ Quiet /\ UNCHANGED <<shown, title, calls, hist>>

cg_begin(t, delta, h, max) ==
    /\ CanCall(t, max) /\ Invoked("change_gain", "", delta, h)
    /\ IF vm /\ backendOk
       THEN Goto(t, "cg_write", [NoLoc EXCEPT !.arg = delta, !.gcur = strip.gain])
       ELSE Goto(t, "idle", NoLoc)
    /\ Quiet /\ UNCHANGED <<strip, shown, title>>

cg_write(t) ==
    /\ Alive /\ pc[t] = "cg_write"
    /\ strip' = IF backendOk
                 THEN [strip EXCEPT !.gain = NewGain(loc[t].gcur, loc[t].arg)]
                 ELSE strip
    /\ Goto(t, "idle", NoLoc)
    /\ Quiet /\ UNCHANGED <<shown, title, calls, hist>>

\* set_gain reads the current gain (for its print) before it writes.
sg_begin(t, value, h, max) ==
    /\ CanCall(t, max) /\ Invoked("set_gain", "", value, h)
    /\ IF vm /\ backendOk
       THEN Goto(t, "sg_write", [NoLoc EXCEPT !.arg = value])
       ELSE Goto(t, "idle", NoLoc)
    /\ Quiet /\ UNCHANGED <<strip, shown, title>>

sg_write(t) ==
    /\ Alive /\ pc[t] = "sg_write"
    /\ strip' = IF backendOk
                 THEN [strip EXCEPT !.gain = ClampedValue(loc[t].arg)]
                 ELSE strip
    /\ Goto(t, "idle", NoLoc)
    /\ Quiet /\ UNCHANGED <<shown, title, calls, hist>>

\* set_icon_theme: the theme is stored and saved (save_settings absorbs its
\* own failures), then update_icon.
theme_begin(t, theme, max) ==
    /\ CanCall(t, max) /\ calls' = calls + 1
    /\ icon_theme' = theme
    /\ Goto(t, "ui_muted", NoLoc)
    /\ UNCHANGED <<vm, icon, running, stopped, assetsOk, backendOk, strip, shown, title,
                   last, pre, streak, chain, hist>>

\* update_icon: `if self.icon: muted = self.is_muted()`
ui_muted(t) ==
    /\ Alive /\ pc[t] = "ui_muted"
    /\ IF ~icon THEN Goto(t, Rest(t), NoLoc)
       ELSE IF vm /\ ~backendOk THEN Goto(t, Rest(t), NoLoc)
       ELSE Goto(t, "ui_a1", [NoLoc EXCEPT !.muted = IsMuted(strip)])
    /\ Quiet /\ UNCHANGED <<strip, shown, title, calls, hist>>

\* create_icon_image: a1_active = self.is_bus_active('A1').  A raise is caught
\* by the method's handler, which raises again on the unbound icon_path.
ui_a1(t) ==
    /\ Alive /\ pc[t] = "ui_a1"
    /\ IF vm /\ ~backendOk THEN Goto(t, Rest(t), NoLoc)
       ELSE Goto(t, "ui_a2", [loc[t] EXCEPT !.a1 = IsBusActive(strip, "A1")])
    /\ Quiet /\ UNCHANGED <<strip, shown, title, calls, hist>>

\* create_icon_image: a2_active = self.is_bus_active('A2'), then the image is
\* chosen with the theme as it is now and opened.
ui_a2(t) ==
    /\ Alive /\ pc[t] = "ui_a2"
    /\ IF vm /\ ~backendOk THEN Goto(t, Rest(t), NoLoc)
       ELSE Goto(t, "ui_set",
                 [NoLoc EXCEPT !.img = CreateIconImage(loc[t].muted, loc[t].a1,
                                                      IsBusActive(strip, "A2"))])
    /\ Quiet /\ UNCHANGED <<strip, shown, title, calls, hist>>

\* update_icon: self.icon.icon = <the image>; self.icon.title =
\* self.get_tooltip().  The tooltip's four reads are part of this step: the
\* text's content is not modelled, only whether it is the strip's status or
\* the default of get_tooltip's except branch.
ui_set(t) ==
    /\ Alive /\ pc[t] = "ui_set"
    /\ shown' = loc[t].img
    /\ title' = IF vm /\ backendOk THEN "status" ELSE "default"
    /\ Goto(t, Rest(t), NoLoc)
    /\ Quiet /\ UNCHANGED <<strip, calls, hist>>

\* quit_application, from the menu's Exit item: icon.run() returns once the
\* handler has, and no further menu callback is served.
quit_application ==
    /\ Alive /\ pc["main"] = "idle"
    /\ running' = FALSE
    /\ stopped' = (stopped \/ icon)
    /\ Goto("main", "stopped", NoLoc)
    /\ UNCHANGED <<vm, icon, icon_theme, assetsOk, backendOk, strip, shown, title,
                   last, pre, streak, chain, calls, hist>>

\* run(): the backend is logged in, self.vm set, the initial state printed
\* and the keyboard hook installed.
run_login ==
    /\ pc["main"] = "start"
    /\ IF backendOk
       THEN /\ vm' = TRUE
            /\ pc' = [pc EXCEPT !["main"] = "ic_muted", !["hotkey"] = "idle"]
       ELSE /\ vm' = vm
            /\ pc' = [pc EXCEPT !["main"] = "crashed"]
    /\ UNCHANGED <<icon, running, stopped, icon_theme, assetsOk, backendOk, strip, shown,
                   title, last, pre, streak, chain, loc, calls, hist>>

\* run(): initial_icon = self.create_icon_image(self.is_muted()), one backend
\* read per step.
run_icon_read ==
    /\ pc["main"] \in {"ic_muted", "ic_a1", "ic_a2"}
    /\ IF ~backendOk THEN Goto("main", "crashed", NoLoc)
       ELSE IF pc["main"] = "ic_muted"
            THEN Goto("main", "ic_a1", [NoLoc EXCEPT !.muted = IsMuted(strip)])
       ELSE IF pc["main"] = "ic_a1"
            THEN Goto("main", "ic_a2", [loc["main"] EXCEPT !.a1 = IsBusActive(strip, "A1")])
       ELSE Goto("main", "ic_make",
                 [NoLoc EXCEPT !.img = CreateIconImage(loc["main"].muted, loc["main"].a1,
                                                      IsBusActive(strip, "A2"))])
    /\ Quiet /\ UNCHANGED <<strip, shown, title, calls, hist>>

\* run(): the icon is built with get_tooltip() and create_menu() (which reads
\* the gain), the refresh thread is started and icon.run() serves the menu.
run_start ==
    /\ pc["main"] = "ic_make"
    /\ IF backendOk
       THEN /\ icon' = TRUE
            /\ shown' = loc["main"].img
            /\ title' = "status"
            /\ pc' = [pc EXCEPT !["main"] = "idle", !["refresh"] = "loop"]
       ELSE /\ UNCHANGED <<icon, shown, title>>
            /\ pc' = [pc EXCEPT !["main"] = "crashed"]
    /\ loc' = [loc EXCEPT !["main"] = NoLoc]
    /\ UNCHANGED <<vm, running, stopped, icon_theme, assetsOk, backendOk, strip,
                   last, pre, streak, chain, calls, hist>>

\* Mutant of the loop's test: `while True:`.
loop_check_Forever ==
    /\ Alive /\ pc["refresh"] = "loop"
    /\ IF icon /\ vm THEN Goto("refresh", "menu", NoLoc)
       ELSE Goto("refresh", "loop", NoLoc)
    /\ UNCHANGED <<vm, icon, running, stopped, icon_theme, assetsOk, backendOk,
                   last, pre, streak, chain, strip, shown, title, calls, hist>>

\* menu_update_loop: `while self.running:` and `if self.icon and self.vm:`;
\* a pass that is skipped goes straight to time.sleep.
loop_check ==
    /\ Alive /\ pc["refresh"] = "loop"
    /\ IF ~running THEN Goto("refresh", "ended", NoLoc)
       ELSE IF icon /\ vm THEN Goto("refresh", "menu", NoLoc)
       ELSE Goto("refresh", "loop", NoLoc)
    /\ Quiet /\ UNCHANGED <<strip, shown, title, calls, hist>>

\* menu_update_loop: self.icon.menu = self.create_menu(), which reads the
\* gain; a raise is caught by the bare except and the pass is abandoned.
loop_menu ==
    /\ Alive /\ pc["refresh"] = "menu"
    /\ IF backendOk THEN Goto("refresh", "ui_muted", NoLoc)
       ELSE Goto("refresh", "loop", NoLoc)
    /\ Quiet /\ UNCHANGED <<strip, shown, title, calls, hist>>

\* The backend stops answering, or answers again.
backend_fails ==
    /\ Alive /\ backendOk
    /\ backendOk' = FALSE
    /\ UNCHANGED <<vm, icon, running, stopped, icon_theme, strip, shown, title, assetsOk,
                   last, pre, streak, chain, pc, loc, calls, hist>>

backend_recovers ==
    /\ Alive /\ ~backendOk
    /\ backendOk' = TRUE
    /\ UNCHANGED <<vm, icon, running, stopped, icon_theme, strip, shown, title, assetsOk,
                   last, pre, streak, chain, pc, loc, calls, hist>>

Started ==
    /\ vm = FALSE
    /\ icon = FALSE
    /\ running = TRUE
    /\ stopped = FALSE
    /\ icon_theme = ""
    /\ strip \in ConcStrips
    /\ shown = <<"none", "">>
    /\ title = "none"
    /\ assetsOk \in BOOLEAN
    /\ backendOk = TRUE
    /\ last = Called("init", "", 0, FALSE, <<>>)
    /\ pre = strip
    /\ streak = 0
    /\ chain = [op |-> "", bus |-> "", n |-> 0, orig |-> FALSE]
    /\ pc = PcStart
    /\ loc = [t \in Threads |-> NoLoc]
    /\ calls = 0

\* ConcSpec keeps the strip at start and the handlers invoked in hist.
ConcInit == Started /\ hist = <<strip>>

LiveInit == Started /\ hist = <<>>

\* The steps of the handlers already under way, of run() and of the refresh
\* thread.
RefreshStep ==
    \/ loop_check
    \/ loop_menu
    \/ ui_muted("refresh")
    \/ ui_a1("refresh")
    \/ ui_a2("refresh")
    \/ ui_set("refresh")

HandlerStep(t) ==
    \/ tm_write(t)
    \/ tb_write(t)
    \/ cg_write(t)
    \/ sg_write(t)
    \/ ui_muted(t)
    \/ ui_a1(t)
    \/ ui_a2(t)
    \/ ui_set(t)

RunStep == run_login \/ run_icon_read \/ run_start

\* A hotkey or a menu item starts a handler; h: the call is kept in hist.
Begin(h, max, deltas, values) ==
    \/ \E t \in Callers : tm_begin(t, h, max)
    \/ \E t \in Callers, bus \in Buses : tb_begin(t, bus, h, max)
    \/ \E t \in Callers : \E delta \in DeltasOf(t) \cap deltas : cg_begin(t, delta, h, max)
    \/ \E value \in Presets \cap values : sg_begin("main", value, h, max)

ConcNext ==
    \/ RunStep
    \/ Begin(TRUE, MaxCalls, {2, 4, -4, -2}, Presets)
    \/ \E t \in Callers : HandlerStep(t)
    \/ RefreshStep

ConcSpec == ConcInit /\ [][ConcNext]_vars

LiveNext ==
    \/ RunStep
    \/ Begin(FALSE, MaxLiveCalls, {-2}, {-6})
    \/ \E theme \in Themes : theme_begin("main", theme, MaxLiveCalls)
    \/ quit_application
    \/ \E t \in Callers : HandlerStep(t)
    \/ RefreshStep
    \/ backend_fails
    \/ backend_recovers

\* The refresh thread is a live thread of the process: it is scheduled again
\* whenever it can take a step (time.sleep returns, a backend call answers
\* or raises).
LiveSpec == LiveInit /\ [][LiveNext]_vars /\ WF_vars(RefreshStep)

(***************************************************************************)
(* Properties of Spec.                                                     *)
(***************************************************************************)

\* The last call was `op`, made with a backend handle, and returned normally.
Completed(op) == last.op = op /\ last.vm /\ ~last.raised

\* C1: the strip's gain is within [-60, 0] in every state, whatever the
\* arguments of the change_gain and set_gain calls made so far.
GainRangeInvariant == GainFloor <= strip.gain /\ strip.gain <= GainCeil

\* A change_gain whose sum lies above the ceiling has been applied.
GainRangeWitness ==
    Completed("change_gain") /\ last.arg = OutOfRange /\ pre.gain + last.arg > GainCeil

\* C2: a completed change_gain(delta) from gain g stores min(max(g + delta, -60), 0)
\* and a completed set_gain(v) stores min(max(v, -60), 0); in particular -1 + 5
\* gives 0, set_gain(10) gives 0 and set_gain(-100) gives -60.
ClampExact ==
    /\ Completed("change_gain") =>
          /\ strip.gain = Min(Max(pre.gain + last.arg, -60), 0)
          /\ (pre.gain = -1 /\ last.arg = 5 => strip.gain = 0)
    /\ Completed("set_gain") =>
          /\ strip.gain = Min(Max(last.arg, -60), 0)
          /\ (last.arg = 10 => strip.gain = 0)
          /\ (last.arg = -100 => strip.gain = -60)

\* change_gain(+5) has been applied at gain -1.
ClampExactWitness ==
    Completed("change_gain") /\ pre.gain = -1 /\ last.arg = 5 /\ strip.gain = 0

\* The flag a toggle acts on.
ChainFlag == IF chain.op = "toggle_mute" THEN strip.mute ELSE FlagOf(strip, chain.bus)

\* C3: after one completed toggle_mute (or toggle_bus on a bus) the flag is the
\* negation of what it was, and after two consecutive completed calls of the same
\* toggle it is back at its original value (odd counts negate, even restore).
ToggleInvolution ==
    chain.n >= 1 => ChainFlag = (IF chain.n % 2 = 0 THEN chain.orig ELSE ~chain.orig)

\* toggle_mute has completed twice in a row.
ToggleInvolutionWitness == chain.op = "toggle_mute" /\ chain.n = 2 /\ strip.mute = chain.orig

\* C4: every call leaves the fields it is not about unchanged: toggle_bus(A1)
\* keeps A2, mute and gain; toggle_bus(A2) keeps A1, mute and gain; toggle_mute
\* keeps A1, A2 and gain; change_gain and set_gain keep mute, A1 and A2; the
\* reads keep everything.
FieldIndependence ==
    /\ last.op = "toggle_mute" =>
          strip.A1 = pre.A1 /\ strip.A2 = pre.A2 /\ strip.gain = pre.gain
    /\ last.op = "toggle_bus" /\ last.bus = "A1" =>
          strip.A2 = pre.A2 /\ strip.mute = pre.mute /\ strip.gain = pre.gain
    /\ last.op = "toggle_bus" /\ last.bus = "A2" =>
          strip.A1 = pre.A1 /\ strip.mute = pre.mute /\ strip.gain = pre.gain
    /\ last.op \in {"change_gain", "set_gain"} =>
          strip.mute = pre.mute /\ strip.A1 = pre.A1 /\ strip.A2 = pre.A2
    /\ last.op \in {"is_muted", "is_bus_active", "get_current_gain"} => strip = pre

\* The strip has been muted while both routes were on.
FieldIndependenceWitness ==
    Completed("toggle_mute") /\ ~pre.mute /\ strip.mute /\ pre.A1 /\ pre.A2

\* C5 as stated: from -10, one change_gain(-2) gives -12, four give -60 and a
\* fifth stays at -60.
FloorScenarioAsStated ==
    /\ streak = 1 => strip.gain = -12
    /\ streak = 4 => strip.gain = -60
    /\ streak = 5 => strip.gain = -60

\* C5 amended: from -10, k consecutive change_gain(-2) calls give
\* max(-10 - 2k, -60): -12 after one, -18 after four, the floor -60 after 25,
\* and every further call stays at -60.
FloorScenario ==
    /\ streak >= 1 => strip.gain = Max(-10 - 2 * streak, -60)
    /\ streak = 1 => strip.gain = -12
    /\ streak = 4 => strip.gain = -18
    /\ streak >= 25 => strip.gain = -60

\* A 26th consecutive change_gain(-2) has been applied, at the floor.
FloorScenarioWitness ==
    streak >= 26 /\ pre.gain = GainFloor /\ strip.gain = GainFloor

ControllerOps == {"toggle_mute", "toggle_bus", "change_gain", "set_gain",
                  "is_muted", "is_bus_active", "get_current_gain"}

\* C6: no call of a controller method ends with an exception escaping to its
\* caller, whichever backend call raised.
FailureAbsorbed == last.op \in ControllerOps => ~last.raised

\* C7: a call made without a backend handle changes nothing and raises nothing,
\* and the reads return False, False and 0.
NoOpWithoutBackend ==
    /\ [](last.op \in ControllerOps /\ ~last.vm =>
            /\ ~last.raised
            /\ strip = pre
            /\ (last.op \in {"is_muted", "is_bus_active"} => last.ret = <<FALSE>>)
            /\ (last.op = "get_current_gain" => last.ret = <<0>>))
    /\ [][~vm /\ last'.op \in ControllerOps =>
            UNCHANGED <<vm, icon, running, stopped, icon_theme, strip, shown, title>>]_vars

\* get_current_gain has been called without a handle while the strip's gain
\* is not 0.
NoOpWithoutBackendWitness ==
    last.op = "get_current_gain" /\ ~last.vm /\ strip.gain # 0 /\ last.ret = <<0>>


(***************************************************************************)
(* Properties of ConcSpec and LiveSpec.                                    *)
(***************************************************************************)

\* The handlers of hist run one after another, each to completion.
RECURSIVE Serial(_, _, _)
Serial(s, ops, order) ==
    IF order = <<>> THEN s
    ELSE LET o == ops[Head(order)]
             s2 == IF o.op = "toggle_mute" THEN ToggledMute(s)
                   ELSE IF o.op = "toggle_bus" THEN ToggledBus(s, o.bus)
                   ELSE IF o.op = "change_gain"
                        THEN [s EXCEPT !.gain = NewGain(s.gain, o.arg)]
                   ELSE [s EXCEPT !.gain = ClampedValue(o.arg)]
         IN Serial(s2, ops, Tail(order))

Orders(n) == {q \in [1..n -> 1..n] : \A i, j \in 1..n : i # j => q[i] # q[j]}

SerialResults == {Serial(Head(hist), Tail(hist), q) : q \in Orders(Len(hist) - 1)}

AllReturned == \A t \in Callers : pc[t] \in {"idle", "stopped"}

\* C8: once the handlers invoked so far have all returned, the strip is what
\* some serial order of them gives from the strip at start; in particular two
\* toggle_mute calls leave mute as it was and two change_gain(-2) calls lower
\* the gain by 4.
Serializable == AllReturned => strip \in SerialResults

\* C9: once quit_application has run, running stays false and the tray loop
\* is stopped; the refresh loop ends only at its `while self.running` test
\* (never by an exception inside a pass), begins no pass once running is
\* false, stays ended, and does end.
ExitStopsRefresh ==
    /\ [][~running => ~running']_vars
    /\ [](~running => stopped /\ pc["main"] = "stopped")
    /\ [][pc["refresh"] = "ended" => pc'["refresh"] = "ended"]_vars
    /\ [][~running /\ pc["refresh"] = "loop" => pc'["refresh"] \in {"loop", "ended"}]_vars
    /\ [][pc["refresh"] # "ended" /\ pc'["refresh"] = "ended" =>
            ~running /\ pc["refresh"] = "loop"]_vars
    /\ (~running ~> pc["refresh"] = "ended")

\* The refresh loop has ended after quit_application.
ExitStopsRefreshWitness == ~running /\ stopped /\ pc["refresh"] = "ended"

Flags == [mute : BOOLEAN, A1 : BOOLEAN, A2 : BOOLEAN]

FlagsNow == [mute |-> strip.mute, A1 |-> strip.A1, A2 |-> strip.A2]

\* The icon the claim assigns to a state: muted -> muted; else A1 and A2 ->
\* unmute; only A1 -> headset; only A2 -> speakers; neither -> muted.
ExpectedKind(f) ==
    CASE f.mute -> "muted"
      [] ~f.mute /\ f.A1 /\ f.A2 -> "unmute"
      [] ~f.mute /\ f.A1 /\ ~f.A2 -> "headset"
      [] ~f.mute /\ ~f.A1 /\ f.A2 -> "speakers"
      [] ~f.mute /\ ~f.A1 /\ ~f.A2 -> "muted"

\* The application is running with the backend available and the icon created.
Refreshing == Alive /\ running /\ backendOk /\ icon

\* Every step of the refresh thread leaves the strip as it is.
RefreshOnlyReads == [][pc'["refresh"] # pc["refresh"] => strip' = strip]_vars

\* The displayed icon is the one the claim's mapping assigns to the strip.
Mirrored == shown[1] = ExpectedKind(FlagsNow)

\* The displayed icon is what create_icon_image gives for the strip: the
\* mapping's PNG, or the fallback for the mute flag when no PNG can be opened.
MirroredOrFallback ==
    shown[1] = (IF assetsOk THEN ExpectedKind(FlagsNow) ELSE FallbackIcon(strip.mute)[1])

\* C10 as stated: the refresh thread never writes the strip, and in every
\* behaviour in which the flags stop changing and the application goes on
\* refreshing, the displayed icon is again and again the one the mapping
\* assigns to the strip (that is: from any state, it comes to be that icon
\* unless the flags change or refreshing stops first).
DisplayMirrors ==
    /\ RefreshOnlyReads
    /\ \/ []<><<FlagsNow' # FlagsNow>>_vars
       \/ []<>~Refreshing
       \/ []<>Mirrored

\* C10 amended: the same for the icon create_icon_image gives, which is the
\* mapping's when the PNG assets can be opened and the fallback when not.
DisplayMirrorsOrFallback ==
    /\ RefreshOnlyReads
    /\ \/ []<><<FlagsNow' # FlagsNow>>_vars
       \/ []<>~Refreshing
       \/ []<>MirroredOrFallback

\* The refresh thread is about to replace the icon shown since start (unmute)
\* by the headset icon, after toggle_bus has turned A2 off: toggle_bus itself
\* never updates the icon.
DisplayMirrorsWitness ==
    /\ Refreshing /\ assetsOk
    /\ ~strip.mute /\ strip.A1 /\ ~strip.A2
    /\ shown[1] = "unmute"
    /\ pc["refresh"] = "ui_set" /\ loc["refresh"].img[1] = "headset"
====
